---- MODULE Spec2Model ----
(***************************************************************************)
(* Discrete subspaces of baybe (baybe/searchspace/discrete.py): the        *)
(* cartesian-product and simplex constructions, the attrs-generated        *)
(* constructor of SubspaceDiscrete with its defaults and validators, and   *)
(* the operations on a constructed space (mark_as_measured,                *)
(* get_candidates, transform).                                             *)
(*                                                                         *)
(* A dataframe is a record [index, columns, rows]: the row labels, the     *)
(* column labels, and one tuple of cell values per row (aligned with       *)
(* columns).  Numbers are integers (exact arithmetic); labels of           *)
(* categorical and task parameters are strings.                            *)
(***************************************************************************)
EXTENDS Integers, Sequences, FiniteSets, TLC

VARIABLES
    pc,              \* "new" | "built" | "error" | "returned"
    args,            \* the call that produced the current object / result
    parameters,      \* SubspaceDiscrete.parameters
    exp_rep,         \* SubspaceDiscrete.exp_rep
    metadata,        \* SubspaceDiscrete.metadata
    empty_encoding,  \* SubspaceDiscrete.empty_encoding
    constraints,     \* SubspaceDiscrete.constraints
    comp_rep,        \* SubspaceDiscrete.comp_rep
    error,           \* "" or the name of the exception raised
    ret              \* value returned by the last call

vars == <<pc, args, parameters, exp_rep, metadata, empty_encoding, constraints,
          comp_rep, error, ret>>

fields == <<parameters, exp_rep, metadata, empty_encoding, constraints, comp_rep>>

(***************************************************************************)
(* Bounds of the model.                                                    *)
(***************************************************************************)
MaxParams == 2
MaxConstraints == 2
MaxSimplexParams == 2
MaxTotal == 3
MaxTolerance == 1
MaxMeasurements == 1
MaxGridLen == 3
MaxGridValue == 2
MaxNuChars == 3
MaxNuNumerator == 6

(***************************************************************************)
(* Generic sequence helpers.                                               *)
(***************************************************************************)
Range(s) == {s[i] : i \in 1..Len(s)}

NoDuplicates(s) == \A i, j \in 1..Len(s) : i # j => s[i] # s[j]

RECURSIVE SeqSum(_)
SeqSum(s) == IF s = <<>> THEN 0 ELSE Head(s) + SeqSum(Tail(s))

RECURSIVE SeqProd(_)
SeqProd(s) == IF s = <<>> THEN 1 ELSE Head(s) * SeqProd(Tail(s))

Min(S) == CHOOSE x \in S : \A y \in S : x <= y

Abs(x) == IF x < 0 THEN -x ELSE x

\* Subsequence of s at the positions (ascending) that satisfy Keep.
RECURSIVE SelectPos(_, _, _)
SelectPos(s, keep, i) ==
    IF i > Len(s) THEN <<>>
    ELSE (IF i \in keep THEN <<s[i]>> ELSE <<>>) \o SelectPos(s, keep, i + 1)

\* All sequences without repetition over S of length at most n.
RECURSIVE DistinctSeqs(_, _)
DistinctSeqs(S, n) ==
    IF n = 0 THEN {<<>>}
    ELSE LET shorter == DistinctSeqs(S, n - 1)
         IN shorter \cup {Append(s, x) : s \in shorter, x \in S}

InjectiveSeqs(S, n) == {s \in DistinctSeqs(S, n) : NoDuplicates(s)}

(***************************************************************************)
(* Dataframes.                                                             *)
(***************************************************************************)
DataFrame(index, columns, rows) ==
    [index |-> index, columns |-> columns, rows |-> rows]

\* pd.DataFrame(): no rows, no columns.
EmptyDataFrame == DataFrame(<<>>, <<>>, <<>>)

\* pd.RangeIndex(n) as produced by reset_index(drop=True) and pd.merge.
RangeIndex(n) == [i \in 1..n |-> i - 1]

NRows(df) == Len(df.index)

HasColumn(df, name) == name \in Range(df.columns)

ColPos(df, name) == CHOOSE j \in 1..Len(df.columns) : df.columns[j] = name

\* df[name] as the sequence of its cells.
Column(df, name) == [i \in 1..NRows(df) |-> df.rows[i][ColPos(df, name)]]

\* df.loc[mask] for a positional boolean mask: the rows kept, labels preserved.
RowsAt(df, keep) ==
    DataFrame(SelectPos(df.index, keep, 1), df.columns, SelectPos(df.rows, keep, 1))

\* df.drop(index=labels): removes every row whose label is in labels.
DropLabels(df, labels) ==
    RowsAt(df, {i \in 1..NRows(df) : df.index[i] \notin labels})

\* Mutation: the index is left as the pruning left it.
ResetIndex_skipped(df) == df

\* df.reset_index(drop=True)
ResetIndex(df) == DataFrame(RangeIndex(NRows(df)), df.columns, df.rows)

\* df[cols]: the listed columns in the listed order.
SelectColumns(df, cols) ==
    DataFrame(df.index, cols,
              [i \in 1..NRows(df) |->
                  [j \in 1..Len(cols) |-> df.rows[i][ColPos(df, cols[j])]]])

\* pd.concat([a, b], axis=1) of two frames sharing their index.
ConcatColumns(a, b) ==
    DataFrame(a.index, a.columns \o b.columns,
              [i \in 1..NRows(a) |-> a.rows[i] \o b.rows[i]])

\* Cross join of a frame with one new column of values, left-major order
\* (pd.merge(how="cross"); the same order as pd.MultiIndex.from_product).
CrossJoin(df, name, values) ==
    LET n == Len(values)
    IN DataFrame(RangeIndex(NRows(df) * n), Append(df.columns, name),
                 [k \in 1..(NRows(df) * n) |->
                     Append(df.rows[((k - 1) \div n) + 1], values[((k - 1) % n) + 1])])

(***************************************************************************)
(* Parameters.                                                             *)
(***************************************************************************)
\* A parameter object.  values: the sorted grid (labels for categorical and task
\* parameters); tolerance: in units of 1/ToleranceDenominator; comp_cols: the
\* names of the columns of its computational encoding.
NumericalDiscreteParameter(name, values, tolerance) ==
    [kind |-> "NumericalDiscreteParameter", name |-> name, values |-> values,
     active_values |-> {}, tolerance |-> tolerance, comp_cols |-> <<name>>]

CategoricalParameter(name, values) ==
    [kind |-> "CategoricalParameter", name |-> name, values |-> values,
     active_values |-> {}, tolerance |-> 0,
     comp_cols |-> [j \in 1..Len(values) |-> name \o "_" \o values[j]]]

TaskParameter(name, values, active_values) ==
    [kind |-> "TaskParameter", name |-> name, values |-> values,
     active_values |-> active_values, tolerance |-> 0, comp_cols |-> <<name>>]

NumericalContinuousParameter(name) ==
    [kind |-> "NumericalContinuousParameter", name |-> name, values |-> <<>>,
     active_values |-> {}, tolerance |-> 0, comp_cols |-> <<name>>]

\* fraction = 0.1 of the smallest gap: tolerances are counted in tenths.
ToleranceDenominator == 10

\* NumericalDiscreteParameter.default_tolerance, in tenths.
default_tolerance(values) ==
    Min({values[i + 1] - values[i] : i \in 1..(Len(values) - 1)})

\* NumericalDiscreteParameter.is_in_range
is_in_range(p, item) ==
    \E i \in 1..Len(p.values) :
        Abs(p.values[i] - item) * ToleranceDenominator <= p.tolerance

is_discrete(p) == p.kind # "NumericalContinuousParameter"

is_numeric(p) ==
    p.kind \in {"NumericalDiscreteParameter", "NumericalContinuousParameter"}

isTaskParameter(p) == p.kind = "TaskParameter"

Names(ps) == [i \in 1..Len(ps) |-> ps[i].name]

(***************************************************************************)
(* parameter_cartesian_prod_to_df                                          *)
(***************************************************************************)
DiscreteOnly(ps) == SelectPos(ps, {i \in 1..Len(ps) : is_discrete(ps[i])}, 1)

RECURSIVE from_product_index(_, _)
from_product_index(df, ps) ==
    IF ps = <<>> THEN df
    ELSE from_product_index(CrossJoin(df, Head(ps).name, Head(ps).values), Tail(ps))

\* Mutation: the filter on is_discrete is missing.
parameter_cartesian_prod_to_df_unfiltered(ps) ==
    IF Len(ps) < 1 THEN EmptyDataFrame
    ELSE from_product_index(DataFrame(<<0>>, <<>>, << <<>> >>), ps)

parameter_cartesian_prod_to_df(ps) ==
    LET discrete == DiscreteOnly(ps)
    IN IF Len(discrete) < 1 THEN EmptyDataFrame
       ELSE from_product_index(DataFrame(<<0>>, <<>>, << <<>> >>), discrete)

(***************************************************************************)
(* Encodings of the parameters and SubspaceDiscrete.transform.             *)
(***************************************************************************)
IndexOf(s, v) == CHOOSE i \in 1..Len(s) : s[i] = v

\* The encoding of one cell: identity for numerical parameters, one-hot for
\* categorical parameters, the position of the label for task parameters.
EncodeValue(p, v) ==
    IF is_numeric(p) THEN <<v>>
    ELSE IF isTaskParameter(p) THEN <<IndexOf(p.values, v) - 1>>
    ELSE [j \in 1..Len(p.comp_cols) |-> IF p.values[j] = v THEN 1 ELSE 0]

\* NumericalDiscreteParameter.comp_df and its counterparts: one row per value.
comp_df(p) ==
    DataFrame(p.values, p.comp_cols,
              [i \in 1..Len(p.values) |-> EncodeValue(p, p.values[i])])

\* Parameter.transform_rep_exp2comp applied to the parameter's column of data.
transform_rep_exp2comp(p, data) ==
    DataFrame(data.index, p.comp_cols,
              [i \in 1..NRows(data) |-> EncodeValue(p, Column(data, p.name)[i])])

RECURSIVE ConcatAll(_)
ConcatAll(dfs) ==
    IF Len(dfs) = 1 THEN Head(dfs) ELSE ConcatColumns(Head(dfs), ConcatAll(Tail(dfs)))

\* The exception SubspaceDiscrete.transform raises, "" when it returns.
transform_error(ps, ee, data) ==
    IF ee \/ NRows(data) < 1 THEN ""
    ELSE IF \E i \in 1..Len(ps) : ~HasColumn(data, ps[i].name) THEN "KeyError"
    ELSE ""

\* Mutation: the short-circuit returns pd.DataFrame() instead of an empty frame
\* carrying the index of the data.
transform_no_index(ps, ee, has_comp_rep, comp_columns, data) ==
    IF ee \/ NRows(data) < 1 THEN EmptyDataFrame
    ELSE LET dfs == [i \in 1..Len(ps) |-> transform_rep_exp2comp(ps[i], data)]
             full == IF Len(dfs) > 0 THEN ConcatAll(dfs) ELSE EmptyDataFrame
         IN IF has_comp_rep THEN SelectColumns(full, comp_columns) ELSE full

\* Mutation: the result is not reduced to the columns of comp_rep.
transform_unreconciled(ps, ee, has_comp_rep, comp_columns, data) ==
    IF ee \/ NRows(data) < 1
    THEN DataFrame(data.index, <<>>, [i \in 1..NRows(data) |-> <<>>])
    ELSE LET dfs == [i \in 1..Len(ps) |-> transform_rep_exp2comp(ps[i], data)]
         IN IF Len(dfs) > 0 THEN ConcatAll(dfs) ELSE EmptyDataFrame

\* SubspaceDiscrete.transform.  has_comp_rep is false while the constructor is
\* still computing the default of comp_rep (the AttributeError branch).
transform(ps, ee, has_comp_rep, comp_columns, data) ==
    IF ee \/ NRows(data) < 1
    THEN DataFrame(data.index, <<>>, [i \in 1..NRows(data) |-> <<>>])
    ELSE LET dfs == [i \in 1..Len(ps) |-> transform_rep_exp2comp(ps[i], data)]
             full == IF Len(dfs) > 0 THEN ConcatAll(dfs) ELSE EmptyDataFrame
         IN IF has_comp_rep THEN SelectColumns(full, comp_columns) ELSE full

\* df_drop_single_value_columns(df, lst_exclude): keeps the excluded columns and
\* those holding more than one distinct value.
df_drop_single_value_columns(df, lst_exclude) ==
    LET keep == {j \in 1..Len(df.columns) :
                    \/ df.columns[j] \in lst_exclude
                    \/ Cardinality({df.rows[i][j] : i \in 1..NRows(df)}) > 1}
    IN DataFrame(df.index, SelectPos(df.columns, keep, 1),
                 [i \in 1..NRows(df) |-> SelectPos(df.rows[i], keep, 1)])

(***************************************************************************)
(* The constructor of SubspaceDiscrete: defaults, validators, post-init.   *)
(***************************************************************************)
_METADATA_COLUMNS == <<"was_recommended", "was_measured", "dont_recommend">>

WAS_RECOMMENDED == 1
WAS_MEASURED == 2
DONT_RECOMMEND == 3

is_empty(ps) == Len(ps) = 0

TaskParameters(ps) == SelectPos(ps, {i \in 1..Len(ps) : isTaskParameter(ps[i])}, 1)

\* SubspaceDiscrete._on_task_configurations: a positional boolean mask.  Only the
\* first task parameter of the list is consulted (next(...) over the parameters).
_on_task_configurations(ps, exp) ==
    IF TaskParameters(ps) = <<>> THEN [i \in 1..NRows(exp) |-> TRUE]
    ELSE LET task_param == Head(TaskParameters(ps))
         IN [i \in 1..NRows(exp) |->
                Column(exp, task_param.name)[i] \in task_param.active_values]

OffTask(ps, exp) == {i \in 1..NRows(exp) : ~_on_task_configurations(ps, exp)[i]}

\* metadata.loc[positions, "dont_recommend"] = True
SetFlag(md, positions, flag) ==
    DataFrame(md.index, md.columns,
              [i \in 1..NRows(md) |->
                  IF i \in positions THEN [md.rows[i] EXCEPT ![flag] = TRUE]
                  ELSE md.rows[i]])

\* SubspaceDiscrete._default_metadata
_default_metadata(ps, exp) ==
    IF is_empty(ps) THEN DataFrame(<<>>, _METADATA_COLUMNS, <<>>)
    ELSE SetFlag(DataFrame(exp.index, _METADATA_COLUMNS,
                           [i \in 1..NRows(exp) |-> <<FALSE, FALSE, FALSE>>]),
                 OffTask(ps, exp), DONT_RECOMMEND)

\* SubspaceDiscrete._validate_metadata: the exception raised, "" when valid.
\* _on_task_configurations reads the column of the first task parameter, a
\* KeyError when exp_rep does not have it; a boolean mask of the wrong length is
\* an IndexError of .loc.
_validate_metadata(ps, exp, md) ==
    IF TaskParameters(ps) # <<>> /\ ~HasColumn(exp, Head(TaskParameters(ps)).name)
    THEN "KeyError"
    ELSE IF NRows(md) # NRows(exp) THEN "IndexError"
    ELSE IF \A i \in OffTask(ps, exp) : md.rows[i][DONT_RECOMMEND] THEN ""
    ELSE "ValueError"

\* SubspaceDiscrete._validate_exp_rep
_validate_exp_rep(exp) == IF NoDuplicates(exp.index) THEN "" ELSE "ValueError"

\* validate_parameter_names: parameter names must be unique.
validate_parameter_names(ps) == IF NoDuplicates(Names(ps)) THEN "" ELSE "ValueError"

\* SubspaceDiscrete._default_comp_rep
_default_comp_rep(ps, exp, ee) ==
    df_drop_single_value_columns(
        transform(ps, ee, FALSE, <<>>, exp),
        {ps[i].name : i \in {j \in 1..Len(ps) : isTaskParameter(ps[j])}})

\* SubspaceDiscrete.__attrs_post_init__
__attrs_post_init__(ps, exp, md) == SetFlag(md, OffTask(ps, exp), DONT_RECOMMEND)

FirstError(errs) ==
    IF \E i \in 1..Len(errs) : errs[i] # ""
    THEN errs[CHOOSE i \in 1..Len(errs) :
                 errs[i] # "" /\ \A j \in 1..(i - 1) : errs[j] = ""]
    ELSE ""

NoValue == [given |-> FALSE]
Given(v) == [given |-> TRUE, value |-> v]

\* The attrs-generated __init__: attributes in definition order with their
\* defaults, then the validators in definition order, then __attrs_post_init__.
\* Returns the exception raised ("" when none) and the attributes of the object.
SubspaceDiscrete(ps, exp, md_arg, ee, cs, comp_arg) ==
    LET default_err ==
            IF (~md_arg.given /\ ~is_empty(ps)
                    /\ TaskParameters(ps) # <<>>
                    /\ ~HasColumn(exp, Head(TaskParameters(ps)).name))
            THEN "KeyError"
            ELSE IF ~comp_arg.given THEN transform_error(ps, ee, exp) ELSE ""
        md == IF md_arg.given THEN md_arg.value ELSE _default_metadata(ps, exp)
        comp == IF comp_arg.given THEN comp_arg.value ELSE _default_comp_rep(ps, exp, ee)
        err == IF default_err # "" THEN default_err
               ELSE FirstError(<<validate_parameter_names(ps),
                                 _validate_exp_rep(exp),
                                 _validate_metadata(ps, exp, md)>>)
    IN IF err # "" THEN [error |-> err]
       ELSE [error |-> "", parameters |-> ps, exp_rep |-> exp,
             metadata |-> __attrs_post_init__(ps, exp, md),
             empty_encoding |-> ee, constraints |-> cs, comp_rep |-> comp]

(***************************************************************************)
(* Discrete constraints and SubspaceDiscrete.from_product.                 *)
(***************************************************************************)
DiscreteConstraint(type, names, eval_during_creation, threshold, tolerance) ==
    [type |-> type, parameters |-> names,
     eval_during_creation |-> eval_during_creation,
     threshold |-> threshold, tolerance |-> tolerance]

\* The canonical filtering order over the constraint types.
DISCRETE_CONSTRAINTS_FILTERING_ORDER ==
    <<"DiscreteSumConstraint",
      "DiscretePermutationInvarianceConstraint",
      "DiscreteNoLabelDuplicatesConstraint">>

\* The cells of row i in the governed columns.
Governed(c, df, i) ==
    [j \in 1..Len(c.parameters) |-> df.rows[i][ColPos(df, c.parameters[j])]]

\* The cells of row i in all other columns.
Ungoverned(c, df, i) ==
    SelectPos(df.rows[i],
              {j \in 1..Len(df.columns) : df.columns[j] \notin Range(c.parameters)}, 1)

SameBag(s, t) ==
    /\ Len(s) = Len(t)
    /\ \A v \in Range(s) \cup Range(t) :
          Cardinality({j \in 1..Len(s) : s[j] = v})
              = Cardinality({j \in 1..Len(t) : t[j] = v})

\* Constraint.get_invalid: the labels of the rows violating the constraint.
get_invalid(c, df) ==
    LET bad(i) ==
          IF c.type = "DiscreteSumConstraint"
          THEN Abs(SeqSum(Governed(c, df, i)) - c.threshold) > c.tolerance
          ELSE IF c.type = "DiscreteNoLabelDuplicatesConstraint"
          THEN ~NoDuplicates(Governed(c, df, i))
          ELSE \E k \in 1..(i - 1) :
                  /\ SameBag(Governed(c, df, k), Governed(c, df, i))
                  /\ Ungoverned(c, df, k) = Ungoverned(c, df, i)
    IN {df.index[i] : i \in {k \in 1..NRows(df) : bad(k)}}

\* A constraint over a column the table does not have fails loudly.
get_invalid_error(c, df) ==
    IF Range(c.parameters) \subseteq Range(df.columns) THEN "" ELSE "KeyError"

FilterKey(c) == IndexOf(DISCRETE_CONSTRAINTS_FILTERING_ORDER, c.type)

\* Insert c behind every element whose key is not larger (a stable sort).
RECURSIVE InsertByKey(_, _)
InsertByKey(sorted, c) ==
    IF sorted = <<>> THEN <<c>>
    ELSE IF FilterKey(Head(sorted)) <= FilterKey(c)
         THEN <<Head(sorted)>> \o InsertByKey(Tail(sorted), c)
         ELSE <<c>> \o sorted

RECURSIVE StableSort(_, _)
StableSort(done, todo) ==
    IF todo = <<>> THEN done
    ELSE StableSort(InsertByKey(done, Head(todo)), Tail(todo))

\* Mutation: the constraints are applied in the order they were given.
sorted_constraints_as_given(cs) == cs

\* from_product, lines 165-172: the reordering of the constraints.
sorted_constraints(cs) == StableSort(<<>>, cs)

\* Mutation: the eval_during_creation flag is ignored.
EvalDuringCreation_all(cs) == cs

\* from_product, line 178: the constraints applied while the space is created.
EvalDuringCreation(cs) ==
    SelectPos(cs, {i \in 1..Len(cs) : cs[i].eval_during_creation}, 1)

\* from_product, lines 177-180: each constraint sees the table its predecessors
\* left behind.
RECURSIVE remove_invalid(_, _)
remove_invalid(exp, cs) ==
    IF cs = <<>> THEN exp
    ELSE remove_invalid(DropLabels(exp, get_invalid(Head(cs), exp)), Tail(cs))

RECURSIVE remove_invalid_error(_, _)
remove_invalid_error(exp, cs) ==
    IF cs = <<>> THEN ""
    ELSE IF get_invalid_error(Head(cs), exp) # "" THEN get_invalid_error(Head(cs), exp)
    ELSE remove_invalid_error(DropLabels(exp, get_invalid(Head(cs), exp)), Tail(cs))

\* Mutation: every constraint is evaluated on the table the loop started with.
RECURSIVE filter_steps_on_raw(_, _)
filter_steps_on_raw(exp, cs) ==
    IF cs = <<>> THEN <<>>
    ELSE <<[constraint |-> Head(cs), seen |-> exp,
            inds |-> get_invalid(Head(cs), exp)]>>
         \o filter_steps_on_raw(exp, Tail(cs))

\* from_product, lines 178-180, pass by pass: the constraint, the table its
\* get_invalid is called on, and the labels it returns.
RECURSIVE filter_steps(_, _)
filter_steps(exp, cs) ==
    IF cs = <<>> THEN <<>>
    ELSE LET inds == get_invalid(Head(cs), exp)
         IN <<[constraint |-> Head(cs), seen |-> exp, inds |-> inds]>>
            \o filter_steps(DropLabels(exp, inds), Tail(cs))

\* The passes of the filter loop of from_product(ps, cs).
from_product_steps(ps, cs) ==
    filter_steps(parameter_cartesian_prod_to_df(ps),
                 EvalDuringCreation(sorted_constraints(cs)))

\* from_product, lines 164-181: the experimental representation handed to the
\* constructor.
from_product_exp_rep(ps, cs) ==
    ResetIndex(remove_invalid(parameter_cartesian_prod_to_df(ps),
                              EvalDuringCreation(sorted_constraints(cs))))

\* Mutation: a product from which every row was pruned is refused.
from_product_error_on_empty(ps, cs) ==
    IF remove_invalid_error(parameter_cartesian_prod_to_df(ps),
                            EvalDuringCreation(sorted_constraints(cs))) # ""
    THEN "KeyError"
    ELSE IF NRows(parameter_cartesian_prod_to_df(ps)) > 0
            /\ NRows(from_product_exp_rep(ps, cs)) = 0
         THEN "ValueError"
         ELSE ""

\* from_product, lines 177-180: the exception a get_invalid raises, "" when none.
from_product_error(ps, cs) ==
    remove_invalid_error(parameter_cartesian_prod_to_df(ps),
                         EvalDuringCreation(sorted_constraints(cs)))

(***************************************************************************)
(* SubspaceDiscrete.from_simplex.                                          *)
(***************************************************************************)
RowSum(df, i) == SeqSum(df.rows[i])

\* Mutation: the upper bound is exclusive.
drop_invalid_exclusive(df, total, tolerance, equality) ==
    LET rows_to_drop ==
          IF equality
          THEN {df.index[i] : i \in {k \in 1..NRows(df) :
                   \/ RowSum(df, k) < total - tolerance
                   \/ RowSum(df, k) > total + tolerance}}
          ELSE {df.index[i] : i \in {k \in 1..NRows(df) :
                   RowSum(df, k) >= total + tolerance}}
    IN DropLabels(df, rows_to_drop)

\* from_simplex.drop_invalid: the rows violating the simplex constraint are
\* dropped by label.
drop_invalid(df, total, tolerance, equality) ==
    LET rows_to_drop ==
          IF equality
          THEN {df.index[i] : i \in {k \in 1..NRows(df) :
                   \/ RowSum(df, k) < total - tolerance
                   \/ RowSum(df, k) > total + tolerance}}
          ELSE {df.index[i] : i \in {k \in 1..NRows(df) :
                   RowSum(df, k) > total + tolerance}}
    IN DropLabels(df, rows_to_drop)

\* Mutation: the largest value of each parameter is taken.
min_values_largest(ps) == [i \in 1..Len(ps) |-> ps[i].values[Len(ps[i].values)]]

\* min_values = [min(p.values) for p in parameters]
min_values(ps) == [i \in 1..Len(ps) |-> Min(Range(ps[i].values))]

\* Mutation: the minimum of the parameter just joined is counted as still to come.
min_upcoming_with_current(ps, i) ==
    SeqSum(SubSeq(min_values(ps), i, Len(ps)))

\* np.cumsum(min_values[:0:-1])[::-1] padded with 0 by zip_longest: the minimum
\* sum the parameters behind the i-th one contribute.
min_upcoming(ps, i) ==
    SeqSum(SubSeq(min_values(ps), i + 1, Len(ps)))

\* The table after the i-th pass of the loop of from_simplex (lines 307-316).
RECURSIVE simplex_join(_, _, _, _)
simplex_join(ps, i, total, tolerance) ==
    LET joined ==
          IF i = 1
          THEN DataFrame(RangeIndex(Len(ps[1].values)), <<ps[1].name>>,
                         [k \in 1..Len(ps[1].values) |-> <<ps[1].values[k]>>])
          ELSE CrossJoin(simplex_join(ps, i - 1, total, tolerance),
                         ps[i].name, ps[i].values)
    IN drop_invalid(joined, total - min_upcoming(ps, i), tolerance, FALSE)

\* Mutation: the check of non-negativity is missing.
from_simplex_error_sign_unchecked(ps) ==
    IF ~(\A i \in 1..Len(ps) : ps[i].kind = "NumericalDiscreteParameter")
    THEN "ValueError"
    ELSE IF Len(ps) = 0 THEN "ValueError"
    ELSE ""

\* from_simplex, lines 269-282: the exception raised by the validation.
from_simplex_error(ps) ==
    IF ~(\A i \in 1..Len(ps) : ps[i].kind = "NumericalDiscreteParameter")
    THEN "ValueError"
    ELSE IF Len(ps) = 0 THEN "ValueError"
    ELSE IF ~(Min(Range(min_values(ps))) >= 0) THEN "ValueError"
    ELSE ""

\* Mutation: the boundary filter runs whether requested or not.
from_simplex_exp_rep_boundary_always(ps, total, boundary_only, tolerance) ==
    ResetIndex(drop_invalid(simplex_join(ps, Len(ps), total, tolerance),
                            total, tolerance, TRUE))

\* from_simplex, lines 295-323: the experimental representation handed to the
\* constructor.
from_simplex_exp_rep(ps, total, boundary_only, tolerance) ==
    LET built == simplex_join(ps, Len(ps), total, tolerance)
    IN ResetIndex(IF boundary_only THEN drop_invalid(built, total, tolerance, TRUE)
                  ELSE built)

(***************************************************************************)
(* The constructor of NumericalDiscreteParameter.                          *)
(***************************************************************************)
\* Python's sorted on a tuple of numbers (duplicates are kept).
RECURSIVE sorted(_)
sorted(s) ==
    IF s = <<>> THEN <<>>
    ELSE LET t == sorted(Tail(s))
             k == Cardinality({i \in 1..Len(t) : t[i] <= Head(s)})
         IN SubSeq(t, 1, k) \o <<Head(s)>> \o SubSeq(t, k + 1, Len(t))

\* The converter of _values.
_values_converter(x) == sorted(x)

\* The validators of _values: min_len(2) and validate_unique_values (every
\* integer is finite).
_values_validator(values) ==
    IF Len(values) < 2 \/ ~NoDuplicates(values) THEN "ValueError" ELSE ""

\* The validator of tolerance: ge(0.0).
tolerance_validator(tolerance) == IF tolerance >= 0 THEN "" ELSE "ValueError"

\* The attrs-generated __init__ of NumericalDiscreteParameter: the converted
\* values, the default of tolerance when none is given (np.diff(...).min() of
\* fewer than two values raises ValueError), then the validators.
NumericalDiscreteParameter_init(name, values, tolerance_arg) ==
    LET vs == _values_converter(values)
    IN IF ~tolerance_arg.given /\ Len(vs) < 2 THEN [error |-> "ValueError"]
       ELSE LET tolerance == IF tolerance_arg.given THEN tolerance_arg.value
                             ELSE default_tolerance(vs)
                err == FirstError(<<_values_validator(vs),
                                    tolerance_validator(tolerance)>>)
            IN IF err # "" THEN [error |-> err]
               ELSE [error |-> "",
                     value |-> NumericalDiscreteParameter(name, vs, tolerance)]

\* The grid values whose distance to item is acceptable (the true entries of
\* differences_acceptable in is_in_range).
differences_acceptable(p, item) ==
    {i \in 1..Len(p.values) :
        Abs(p.values[i] - item) * ToleranceDenominator <= p.tolerance}

(***************************************************************************)
(* SubspaceDiscrete.from_dataframe and SubspaceDiscrete.empty.             *)
(***************************************************************************)
\* from_dataframe.discrete_parameter_factory: NumericalDiscreteParameter(name,
\* values), whose ValueError is not caught, or the categorical fallback when the
\* converter cannot structure the values as floats (numeric is false:
\* IterableValidationError).
discrete_parameter_factory(name, values, numeric) ==
    IF numeric THEN NumericalDiscreteParameter_init(name, values, NoValue)
    ELSE [error |-> "", value |-> CategoricalParameter(name, values)]

\* get_parameters_from_dataframe: one parameter per column, the given parameter
\* of that name when there is one, else a parameter created by the factory from
\* the distinct values of the column in order of appearance.
get_parameters_from_dataframe(df, numeric_columns, ps) ==
    LET unique(v) == SelectPos(v, {i \in 1..Len(v) :
                                     \A k \in 1..(i - 1) : v[k] # v[i]}, 1)
        made == [j \in 1..Len(df.columns) |->
                   IF \E i \in 1..Len(ps) : ps[i].name = df.columns[j]
                   THEN [error |-> "",
                         value |-> ps[CHOOSE i \in 1..Len(ps) :
                                         ps[i].name = df.columns[j]]]
                   ELSE discrete_parameter_factory(
                            df.columns[j], unique(Column(df, df.columns[j])),
                            df.columns[j] \in numeric_columns)]
        err == FirstError([j \in 1..Len(made) |-> made[j].error])
    IN IF err # "" THEN [error |-> err]
       ELSE [error |-> "", value |-> [j \in 1..Len(made) |-> made[j].value]]

(***************************************************************************)
(* Operations on a constructed space.                                      *)
(***************************************************************************)
\* fuzzy_row_match: the labels of the rows of exp_rep matching some row of the
\* measurements; numerical cells match within the parameter's tolerance when
\* requested and exactly otherwise, all other cells exactly.
fuzzy_row_match(exp, measurements, ps, within_tolerance) ==
    LET cell_matches(p, e, m) ==
          IF is_numeric(p) /\ within_tolerance
          THEN Abs(e - m) * ToleranceDenominator <= p.tolerance
          ELSE e = m
        row_matches(i, k) ==
          \A j \in 1..Len(ps) :
              cell_matches(ps[j], Column(exp, ps[j].name)[i],
                           Column(measurements, ps[j].name)[k])
    IN {exp.index[i] : i \in {r \in 1..NRows(exp) :
            \E k \in 1..NRows(measurements) : row_matches(r, k)}}

\* metadata.loc[labels, "was_measured"] = True
SetFlagByLabel(md, labels, flag) ==
    SetFlag(md, {i \in 1..NRows(md) : md.index[i] \in labels}, flag)

\* Mutation: the flags are combined the wrong way round.
mask_todrop_swapped(md, allow_repeated, allow_measured) ==
    [i \in 1..NRows(md) |->
        \/ md.rows[i][DONT_RECOMMEND]
        \/ (~allow_measured /\ md.rows[i][WAS_RECOMMENDED])
        \/ (~allow_repeated /\ md.rows[i][WAS_MEASURED])]

\* get_candidates, lines 394-398: the mask of the rows to drop.
mask_todrop(md, allow_repeated, allow_measured) ==
    LET m0 == [i \in 1..NRows(md) |-> md.rows[i][DONT_RECOMMEND]]
        m1 == IF ~allow_repeated
              THEN [i \in 1..NRows(md) |-> m0[i] \/ md.rows[i][WAS_RECOMMENDED]]
              ELSE m0
        m2 == IF ~allow_measured
              THEN [i \in 1..NRows(md) |-> m1[i] \/ md.rows[i][WAS_MEASURED]]
              ELSE m1
    IN m2

\* df.loc[~mask] for a boolean series labelled like the metadata: the rows of df
\* whose label the series maps to True.
LocNot(df, md, mask) ==
    RowsAt(df, {i \in 1..NRows(df) :
                   \E k \in 1..NRows(md) : md.index[k] = df.index[i] /\ ~mask[k]})

\* get_candidates, line 400: the value returned.
candidates(exp, comp, md, allow_repeated, allow_measured) ==
    LET mask == mask_todrop(md, allow_repeated, allow_measured)
    IN [exp_rep |-> LocNot(exp, md, mask), comp_rep |-> LocNot(comp, md, mask)]

(***************************************************************************)
(* SubspaceDiscrete.param_bounds_comp.                                     *)
(***************************************************************************)
\* The bounds as the pair <<lower, upper>> of rows of the 2 x k tensor, one
\* entry per column of the parameters' comp_df that is a column of comp_rep, in
\* parameter order; np.hstack of no array raises ValueError.
param_bounds_comp(ps, comp) ==
    IF Len(ps) = 0 THEN [error |-> "", value |-> <<<<>>, <<>>>>]
    ELSE LET col(p, j) == {comp_df(p).rows[i][j] : i \in 1..NRows(comp_df(p))}
             lo(p, j) == CHOOSE x \in col(p, j) : \A y \in col(p, j) : x <= y
             hi(p, j) == CHOOSE x \in col(p, j) : \A y \in col(p, j) : x >= y
             all == ConcatAll([i \in 1..Len(ps) |->
                        DataFrame(<<"min", "max">>, ps[i].comp_cols,
                                  <<[j \in 1..Len(ps[i].comp_cols) |-> lo(ps[i], j)],
                                    [j \in 1..Len(ps[i].comp_cols) |-> hi(ps[i], j)]>>)])
             keep == {j \in 1..Len(all.columns) :
                         all.columns[j] \in Range(comp.columns)}
         IN IF keep = {} THEN [error |-> "ValueError"]
            ELSE [error |-> "",
                  value |-> <<SelectPos(all.rows[1], keep, 1),
                              SelectPos(all.rows[2], keep, 1)>>]

(***************************************************************************)
(* Actions.                                                                *)
(***************************************************************************)
NoFrame == EmptyDataFrame

Init ==
    /\ pc = "new"
    /\ args = [op |-> "none"]
    /\ parameters = <<>>
    /\ exp_rep = NoFrame
    /\ metadata = NoFrame
    /\ empty_encoding = FALSE
    /\ constraints = <<>>
    /\ comp_rep = NoFrame
    /\ error = ""
    /\ ret = [op |-> "none"]

\* The outcome of a constructor call becomes the object, or the error.
Construct(obj) ==
    IF obj.error # ""
    THEN /\ pc' = "error"
         /\ error' = obj.error
         /\ UNCHANGED fields
    ELSE /\ pc' = "built"
         /\ error' = ""
         /\ parameters' = obj.parameters
         /\ exp_rep' = obj.exp_rep
         /\ metadata' = obj.metadata
         /\ empty_encoding' = obj.empty_encoding
         /\ constraints' = obj.constraints
         /\ comp_rep' = obj.comp_rep

\* A call of the module-level function parameter_cartesian_prod_to_df.
call_parameter_cartesian_prod_to_df(ps) ==
    /\ pc = "new"
    /\ pc' = "returned"
    /\ args' = [op |-> "parameter_cartesian_prod_to_df", parameters |-> ps]
    /\ ret' = [op |-> "parameter_cartesian_prod_to_df",
               value |-> parameter_cartesian_prod_to_df(ps)]
    /\ UNCHANGED <<fields, error>>

\* SubspaceDiscrete.from_product
from_product(ps, cs, ee) ==
    /\ pc = "new"
    /\ args' = [op |-> "from_product", parameters |-> ps, constraints |-> cs,
                empty_encoding |-> ee]
    /\ IF from_product_error(ps, cs) # ""
       THEN /\ ret' = [op |-> "from_product", steps |-> <<>>]
            /\ Construct([error |-> from_product_error(ps, cs)])
       ELSE /\ ret' = [op |-> "from_product", steps |-> from_product_steps(ps, cs)]
            /\ Construct(SubspaceDiscrete(ps, from_product_exp_rep(ps, cs), NoValue, ee,
                                          sorted_constraints(cs), NoValue))

\* SubspaceDiscrete.from_simplex
from_simplex(ps, total, boundary_only, tolerance) ==
    /\ pc = "new"
    /\ args' = [op |-> "from_simplex", parameters |-> ps, total |-> total,
                boundary_only |-> boundary_only, tolerance |-> tolerance]
    /\ IF from_simplex_error(ps) # ""
       THEN /\ ret' = [op |-> "from_simplex", steps |-> <<>>]
            /\ Construct([error |-> from_simplex_error(ps)])
       ELSE /\ ret' = [op |-> "from_simplex",
                       steps |-> [i \in 1..Len(ps) |->
                                    simplex_join(ps, i, total, tolerance)]]
            /\ Construct(SubspaceDiscrete(
                    ps, from_simplex_exp_rep(ps, total, boundary_only, tolerance),
                    NoValue, FALSE, <<>>, NoValue))

\* SubspaceDiscrete.from_dataframe
from_dataframe(df, numeric_columns, ps, ee) ==
    /\ pc = "new"
    /\ args' = [op |-> "from_dataframe", df |-> df, parameters |-> ps,
                empty_encoding |-> ee]
    /\ ret' = [op |-> "from_dataframe"]
    /\ LET made == get_parameters_from_dataframe(df, numeric_columns, ps)
       IN IF made.error # "" THEN Construct([error |-> made.error])
          ELSE Construct(SubspaceDiscrete(made.value, df, NoValue, ee, <<>>, NoValue))

\* SubspaceDiscrete.empty
empty ==
    /\ pc = "new"
    /\ args' = [op |-> "empty"]
    /\ ret' = [op |-> "empty"]
    /\ Construct(SubspaceDiscrete(<<>>, EmptyDataFrame,
                                  Given(DataFrame(<<>>, _METADATA_COLUMNS, <<>>)),
                                  FALSE, <<>>, NoValue))

\* The constructor called with externally supplied metadata, with or without
\* a supplied comp_rep.
init_with_metadata(ps, exp, md, ee, with_comp_rep) ==
    /\ pc = "new"
    /\ args' = [op |-> "init_with_metadata", parameters |-> ps, exp_rep |-> exp,
                metadata |-> md, empty_encoding |-> ee]
    /\ ret' = [op |-> "init_with_metadata"]
    /\ Construct(SubspaceDiscrete(
            ps, exp, Given(md), ee, <<>>,
            IF with_comp_rep THEN Given(_default_comp_rep(ps, exp, ee)) ELSE NoValue))

\* The constructor called with a list of constraints (the attribute is a plain
\* field with factory=list: no converter, no validator).
init_with_constraints(ps, cs) ==
    /\ pc = "new"
    /\ args' = [op |-> "init_with_constraints", parameters |-> ps, constraints |-> cs]
    /\ ret' = [op |-> "init_with_constraints"]
    /\ Construct(SubspaceDiscrete(ps, parameter_cartesian_prod_to_df(ps), NoValue,
                                  FALSE, cs, NoValue))

\* Mutation: the rows marked as measured are also removed from the space.
mark_as_measured_consuming(measurements, within_tolerance) ==
    LET inds_matched == fuzzy_row_match(exp_rep, measurements, parameters,
                                        within_tolerance)
    IN /\ pc = "built"
       /\ metadata' = SetFlagByLabel(metadata, inds_matched, WAS_MEASURED)
       /\ exp_rep' = DropLabels(exp_rep, inds_matched)
       /\ ret' = [op |-> "mark_as_measured", inds_matched |-> inds_matched]
       /\ UNCHANGED <<pc, args, parameters, empty_encoding, constraints,
                      comp_rep, error>>

\* Mutation: only the first matching row is marked.
mark_as_measured_first_only(measurements, within_tolerance) ==
    LET inds_matched == fuzzy_row_match(exp_rep, measurements, parameters,
                                        within_tolerance)
        first == {l \in inds_matched : \A o \in inds_matched : l <= o}
    IN /\ pc = "built"
       /\ metadata' = SetFlagByLabel(metadata, first, WAS_MEASURED)
       /\ ret' = [op |-> "mark_as_measured", inds_matched |-> inds_matched]
       /\ UNCHANGED <<pc, args, parameters, exp_rep, empty_encoding, constraints,
                      comp_rep, error>>

\* Mutation: was_measured is written for every row, false where nothing matched.
mark_as_measured_overwriting(measurements, within_tolerance) ==
    LET inds_matched == fuzzy_row_match(exp_rep, measurements, parameters,
                                        within_tolerance)
    IN /\ pc = "built"
       /\ metadata' = DataFrame(metadata.index, metadata.columns,
                           [i \in 1..NRows(metadata) |->
                               [metadata.rows[i] EXCEPT ![WAS_MEASURED] =
                                   metadata.index[i] \in inds_matched]])
       /\ ret' = [op |-> "mark_as_measured", inds_matched |-> inds_matched]
       /\ UNCHANGED <<pc, args, parameters, exp_rep, empty_encoding, constraints,
                      comp_rep, error>>

\* SubspaceDiscrete.mark_as_measured
mark_as_measured(measurements, within_tolerance) ==
    LET inds_matched == fuzzy_row_match(exp_rep, measurements, parameters,
                                        within_tolerance)
    IN /\ pc = "built"
       /\ metadata' = SetFlagByLabel(metadata, inds_matched, WAS_MEASURED)
       /\ ret' = [op |-> "mark_as_measured", inds_matched |-> inds_matched]
       /\ UNCHANGED <<pc, args, parameters, exp_rep, empty_encoding, constraints,
                      comp_rep, error>>

\* Mutation: the mask is built on the metadata column itself, not on a copy.
get_candidates_in_place(allow_repeated, allow_measured) ==
    LET mask == mask_todrop(metadata, allow_repeated, allow_measured)
    IN /\ pc = "built"
       /\ ret' = [op |-> "get_candidates",
                  allow_repeated |-> allow_repeated,
                  allow_measured |-> allow_measured,
                  value |-> candidates(exp_rep, comp_rep, metadata,
                                       allow_repeated, allow_measured)]
       /\ metadata' = DataFrame(metadata.index, metadata.columns,
                                [i \in 1..NRows(metadata) |->
                                    [metadata.rows[i] EXCEPT ![DONT_RECOMMEND] = mask[i]]])
       /\ UNCHANGED <<pc, args, parameters, exp_rep, empty_encoding, constraints,
                      comp_rep, error>>

\* SubspaceDiscrete.get_candidates
get_candidates(allow_repeated, allow_measured) ==
    /\ pc = "built"
    /\ ret' = [op |-> "get_candidates",
               allow_repeated |-> allow_repeated,
               allow_measured |-> allow_measured,
               value |-> candidates(exp_rep, comp_rep, metadata,
                                    allow_repeated, allow_measured)]
    /\ UNCHANGED <<pc, args, fields, error>>

\* A call of SubspaceDiscrete.transform on a constructed space.
call_transform(data) ==
    /\ pc = "built"
    /\ ret' = IF transform_error(parameters, empty_encoding, data) # ""
              THEN [op |-> "transform", data |-> data,
                    error |-> transform_error(parameters, empty_encoding, data)]
              ELSE [op |-> "transform", data |-> data, error |-> "",
                    value |-> transform(parameters, empty_encoding, TRUE,
                                        comp_rep.columns, data)]
    /\ UNCHANGED <<pc, args, fields, error>>

\* A read of the property param_bounds_comp.
call_param_bounds_comp ==
    /\ pc = "built"
    /\ ret' = [op |-> "param_bounds_comp"] @@ param_bounds_comp(parameters, comp_rep)
    /\ UNCHANGED <<pc, args, fields, error>>

(***************************************************************************)
(* Inputs of the product specification.                                    *)
(***************************************************************************)
NumX == NumericalDiscreteParameter("x", <<0, 1>>, 1)
NumY == NumericalDiscreteParameter("y", <<0, 1, 2>>, 1)
CatC == CategoricalParameter("c", <<"a", "b">>)
TaskT == TaskParameter("t", <<"A", "B">>, {"A"})
ContZ == NumericalContinuousParameter("z")

ParamPool == {NumX, NumY, CatC, TaskT, ContZ}

ParamLists == InjectiveSeqs(ParamPool, MaxParams)

DiscreteParamLists == {ps \in ParamLists : \A i \in 1..Len(ps) : is_discrete(ps[i])}

SUM == "DiscreteSumConstraint"
PERM == "DiscretePermutationInvarianceConstraint"
NODUP == "DiscreteNoLabelDuplicatesConstraint"

ConstraintPool ==
    {DiscreteConstraint(SUM, <<"x">>, TRUE, 1, 0),
     DiscreteConstraint(SUM, <<"x", "y">>, TRUE, 2, 1),
     DiscreteConstraint(SUM, <<"x", "y">>, TRUE, 9, 0),
     DiscreteConstraint(PERM, <<"x", "y">>, TRUE, 0, 0),
     DiscreteConstraint(NODUP, <<"x", "y">>, TRUE, 0, 0),
     DiscreteConstraint(NODUP, <<"x", "y">>, FALSE, 0, 0)}

\* Lists of constraints, also over names the parameter list does not have.
ConstraintLists(ps) == InjectiveSeqs(ConstraintPool, MaxConstraints)

NextProduct ==
    \/ \E ps \in ParamLists : call_parameter_cartesian_prod_to_df(ps)
    \/ \E ps \in DiscreteParamLists : \E cs \in ConstraintLists(ps) :
          \E ee \in BOOLEAN : from_product(ps, cs, ee)
    \/ \E ps \in DiscreteParamLists : \E cs \in ConstraintLists(ps) :
          init_with_constraints(ps, cs)

SpecProduct == Init /\ [][NextProduct]_vars

(***************************************************************************)
(* Inputs of the simplex specification.                                    *)
(***************************************************************************)
FracA == NumericalDiscreteParameter("a", <<0, 1, 2>>, 1)
FracB == NumericalDiscreteParameter("b", <<1, 2>>, 1)
FracD == NumericalDiscreteParameter("d", <<0, 3>>, 1)
FracNeg == NumericalDiscreteParameter("n", <<-1, 1>>, 1)

SimplexPool == {FracA, FracB, FracD, FracNeg, CatC}

SimplexParamLists == InjectiveSeqs(SimplexPool, MaxSimplexParams)

Totals == (-1)..MaxTotal

Tolerances == (-1)..MaxTolerance

NextSimplex ==
    \E ps \in SimplexParamLists : \E total \in Totals : \E tolerance \in Tolerances :
        \E boundary_only \in BOOLEAN : from_simplex(ps, total, boundary_only, tolerance)

SpecSimplex == Init /\ [][NextSimplex]_vars

(***************************************************************************)
(* Inputs of the life-cycle specification: constructions by every path,    *)
(* followed by any sequence of operations on the constructed space.        *)
(***************************************************************************)
\* A tolerance of 1.0 on the grid {0, 2}: the value 1 is in range of both.
NumW == NumericalDiscreteParameter("w", <<0, 2>>, 10)
NumW2 == NumericalDiscreteParameter("w", <<0, 4>>, 1)
\* A second task parameter next to TaskT.
TaskU == TaskParameter("u", <<"P", "Q">>, {"P"})

LifeParamLists ==
    {<<>>, <<TaskT>>, <<NumW, TaskT>>, <<CatC, NumW>>, <<NumX, NumY>>,
     <<TaskT, TaskU>>}

LifeConstraintLists(ps) ==
    IF ps = <<NumX, NumY>>
    THEN {<<>>,
          <<DiscreteConstraint(SUM, <<"x", "y">>, TRUE, 2, 1)>>,
          <<DiscreteConstraint(SUM, <<"x", "y">>, TRUE, 9, 0)>>}
    ELSE {<<>>}

LifeSimplexLists == {<<NumW>>, <<NumX, NumY>>, <<NumW, TaskT>>}

LifeFrames ==
    {[df |-> DataFrame(<<5, 7, 9>>, <<"w", "t">>,
                       << <<0, "A">>, <<2, "B">>, <<2, "A">> >>),
      numeric |-> {"w"}, parameters |-> <<NumW, TaskT>>],
     [df |-> DataFrame(<<5, 5, 9>>, <<"w", "t">>,
                       << <<0, "A">>, <<2, "B">>, <<2, "A">> >>),
      numeric |-> {"w"}, parameters |-> <<NumW, TaskT>>],
     [df |-> DataFrame(<<0, 1, 2>>, <<"w", "c">>,
                       << <<0, "a">>, <<4, "a">>, <<2, "a">> >>),
      numeric |-> {"w"}, parameters |-> <<CatC>>],
     [df |-> DataFrame(<<0, 1>>, <<>>, << <<>>, <<>> >>),
      numeric |-> {}, parameters |-> <<>>],
     [df |-> DataFrame(<<0, 1>>, <<"w">>, << <<2>>, <<2>> >>),
      numeric |-> {"w"}, parameters |-> <<>>]}

\* Every metadata table over the index of exp.
AllMetadata(exp) ==
    {DataFrame(exp.index, _METADATA_COLUMNS, rows) :
        rows \in [1..NRows(exp) -> BOOLEAN \X BOOLEAN \X BOOLEAN]}

SuppliedBases ==
    {[parameters |-> <<TaskT>>, exp_rep |-> parameter_cartesian_prod_to_df(<<TaskT>>)],
     [parameters |-> <<NumW>>, exp_rep |-> parameter_cartesian_prod_to_df(<<NumW>>)],
     [parameters |-> <<NumW, NumW2>>,
      exp_rep |-> parameter_cartesian_prod_to_df(<<NumW>>)],
     [parameters |-> <<TaskT, TaskU>>,
      exp_rep |-> DataFrame(<<0, 1>>, <<"t", "u">>, << <<"A", "Q">>, <<"B", "P">> >>)],
     [parameters |-> <<TaskT>>, exp_rep |-> EmptyDataFrame]}

\* The values a measurement can hold for a parameter: its grid values and, for a
\* numerical parameter, their off-grid neighbours.
MeasurableValues(p) ==
    IF is_numeric(p) THEN Range(p.values) \cup {v + 1 : v \in Range(p.values)}
    ELSE Range(p.values)

RECURSIVE MeasurableRows(_)
MeasurableRows(ps) ==
    IF ps = <<>> THEN {<<>>}
    ELSE {<<v>> \o r : v \in MeasurableValues(Head(ps)), r \in MeasurableRows(Tail(ps))}

Measurements(ps) ==
    {DataFrame(RangeIndex(Len(rows)), Names(ps), rows) :
        rows \in (InjectiveSeqs(MeasurableRows(ps), MaxMeasurements) \ {<<>>})}

\* Tables handed to transform: the space itself, one relabelled row of it, no
\* rows, an additional leading column, and a table without the parameter columns.
TransformInputs(exp) ==
    {exp,
     DataFrame(<<>>, exp.columns, <<>>),
     DataFrame(<<0>>, <<>>, << <<>> >>)}
    \cup (IF NRows(exp) = 0 THEN {}
          ELSE {DataFrame(<<42>>, exp.columns, <<exp.rows[NRows(exp)]>>),
                DataFrame(exp.index, <<"Target">> \o exp.columns,
                          [i \in 1..NRows(exp) |-> <<i>> \o exp.rows[i]])})

Next ==
    \/ \E ps \in LifeParamLists : \E cs \in LifeConstraintLists(ps) :
          \E ee \in BOOLEAN : from_product(ps, cs, ee)
    \/ \E ps \in LifeSimplexLists : \E total \in 0..2 : \E boundary_only \in BOOLEAN :
          from_simplex(ps, total, boundary_only, 0)
    \/ \E f \in LifeFrames : \E ee \in BOOLEAN :
          from_dataframe(f.df, f.numeric, f.parameters, ee)
    \/ empty
    \/ \E b \in SuppliedBases : \E md \in AllMetadata(b.exp_rep) :
          \E ee, with_comp_rep \in BOOLEAN :
              init_with_metadata(b.parameters, b.exp_rep, md, ee, with_comp_rep)
    \/ \E measurements \in Measurements(parameters) :
          \E within_tolerance \in BOOLEAN :
              mark_as_measured(measurements, within_tolerance)
    \/ \E allow_repeated, allow_measured \in BOOLEAN :
          get_candidates(allow_repeated, allow_measured)
    \/ \E data \in TransformInputs(exp_rep) : call_transform(data)
    \/ call_param_bounds_comp

Spec == Init /\ [][Next]_vars

(***************************************************************************)
(* Construction of a NumericalDiscreteParameter and its is_in_range.       *)
(***************************************************************************)
\* A constructor call NumericalDiscreteParameter(name, values[, tolerance]).
new_NumericalDiscreteParameter(values, tolerance_arg) ==
    /\ pc = "new"
    /\ args' = [op |-> "NumericalDiscreteParameter", values |-> values,
                tolerance |-> tolerance_arg]
    /\ LET obj == NumericalDiscreteParameter_init("p", values, tolerance_arg)
       IN IF obj.error # ""
          THEN /\ pc' = "error"
               /\ error' = obj.error
               /\ ret' = [op |-> "NumericalDiscreteParameter"]
          ELSE /\ pc' = "parameter"
               /\ error' = ""
               /\ ret' = [op |-> "NumericalDiscreteParameter", self |-> obj.value]
    /\ UNCHANGED fields

\* A call of is_in_range on the constructed parameter.
call_is_in_range(item) ==
    /\ pc = "parameter"
    /\ ret' = [op |-> "is_in_range", self |-> ret.self, item |-> item,
               value |-> is_in_range(ret.self, item),
               acceptable |-> differences_acceptable(ret.self, item)]
    /\ UNCHANGED <<pc, args, fields, error>>

\* Grids of up to MaxGridLen values out of 0..MaxGridValue, in any order and
\* with repetitions.
Grids == UNION {[1..n -> 0..MaxGridValue] : n \in 0..MaxGridLen}

\* No tolerance, and explicit tolerances in tenths: negative, zero, below, at
\* and above half of a gap of one or two.
ToleranceArgs == {NoValue} \cup {Given(t) : t \in {-1, 0, 4, 5, 9, 10, 11}}

NextParameter ==
    \/ \E values \in Grids : \E tolerance_arg \in ToleranceArgs :
          new_NumericalDiscreteParameter(values, tolerance_arg)
    \/ \E item \in (-1)..(MaxGridValue + 1) : call_is_in_range(item)

SpecParameter == Init /\ [][NextParameter]_vars

(***************************************************************************)
(* MaternKernel and the conversion of its nu.  A string is the sequence of *)
(* its characters, a number the fraction num/den in lowest terms.          *)
(***************************************************************************)
RECURSIVE Gcd(_, _)
Gcd(a, b) == IF b = 0 THEN a ELSE Gcd(b, a % b)

\* The number num/den (den > 0) in lowest terms.
Rational(num, den) ==
    LET g == Gcd(Abs(num), den) IN [num |-> num \div g, den |-> den \div g]

\* int(...) of a string of decimal digits ("" gives 0, as int(num or "0")).
RECURSIVE ToInt(_)
ToInt(t) ==
    IF t = <<>> THEN 0
    ELSE LET c == t[Len(t)]
             digit == CASE c = "0" -> 0 [] c = "1" -> 1 [] c = "2" -> 2
                        [] c = "3" -> 3 [] c = "4" -> 4 [] c = "5" -> 5
                        [] c = "6" -> 6 [] c = "7" -> 7 [] c = "8" -> 8
                        [] OTHER -> 9
         IN 10 * ToInt(SubSeq(t, 1, Len(t) - 1)) + digit

\* fractions.Fraction(s) of a string of digits, "/" and ".": digits "/" digits,
\* or digits with an optional "." (a digit before or after it), else ValueError;
\* a denominator of zero is a ZeroDivisionError.
Fraction(s) ==
    LET Digits == {"0", "1", "2", "3", "4", "5", "6", "7", "8", "9"}
        IsDigits(t) == \A i \in 1..Len(t) : t[i] \in Digits
        Cut(c) == IF \E i \in 1..Len(s) : s[i] = c
                  THEN Min({i \in 1..Len(s) : s[i] = c}) ELSE 0
        num(k) == SubSeq(s, 1, k - 1)
        rest(k) == SubSeq(s, k + 1, Len(s))
        scale(k) == SeqProd([i \in 1..Len(rest(k)) |-> 10])
    IN IF Cut("/") > 0
       THEN LET k == Cut("/")
            IN IF ~(IsDigits(num(k)) /\ IsDigits(rest(k))
                        /\ num(k) # <<>> /\ rest(k) # <<>>)
               THEN [error |-> "ValueError"]
               ELSE IF ToInt(rest(k)) = 0 THEN [error |-> "ZeroDivisionError"]
               ELSE [error |-> "", value |-> Rational(ToInt(num(k)), ToInt(rest(k)))]
       ELSE IF Cut(".") > 0
       THEN LET k == Cut(".")
            IN IF ~(IsDigits(num(k)) /\ IsDigits(rest(k))
                        /\ (num(k) # <<>> \/ rest(k) # <<>>))
               THEN [error |-> "ValueError"]
               ELSE [error |-> "",
                     value |-> Rational(ToInt(num(k)) * scale(k) + ToInt(rest(k)),
                                        scale(k))]
       ELSE IF s = <<>> \/ ~IsDigits(s) THEN [error |-> "ValueError"]
       ELSE [error |-> "", value |-> Rational(ToInt(s), 1)]

\* _convert_nu: float(Fraction(nu)) of a string, with ValueError re-raised;
\* float(nu) of a number.
_convert_nu(nu) ==
    IF nu.type = "str" THEN Fraction(nu.chars)
    ELSE [error |-> "", value |-> Rational(nu.num, nu.den)]

\* The attrs-generated __init__ of MaternKernel: default 2.5, converter
\* _convert_nu, validator in_([0.5, 1.5, 2.5]).
MaternKernel(nu_arg) ==
    LET nu == _convert_nu(IF nu_arg.given THEN nu_arg.value
                          ELSE [type |-> "float", num |-> 5, den |-> 2])
    IN IF nu.error # "" THEN nu
       ELSE IF nu.value \notin {Rational(1, 2), Rational(3, 2), Rational(5, 2)}
       THEN [error |-> "ValueError"]
       ELSE [error |-> "", value |-> [nu |-> nu.value]]

\* A constructor call MaternKernel(nu=...) or MaternKernel().
new_MaternKernel(nu_arg) ==
    /\ pc = "new"
    /\ args' = [op |-> "MaternKernel", nu |-> nu_arg]
    /\ LET obj == MaternKernel(nu_arg)
       IN IF obj.error # ""
          THEN /\ pc' = "error"
               /\ error' = obj.error
               /\ ret' = [op |-> "MaternKernel"]
          ELSE /\ pc' = "kernel"
               /\ error' = ""
               /\ ret' = [op |-> "MaternKernel", self |-> obj.value]
    /\ UNCHANGED fields

\* The constructed kernel compared (attrs __eq__) with a second kernel.
eq_MaternKernel(nu_arg) ==
    /\ pc = "kernel"
    /\ MaternKernel(nu_arg).error = ""
    /\ ret' = [op |-> "__eq__", self |-> ret.self, other_nu |-> nu_arg,
               other |-> MaternKernel(nu_arg).value,
               value |-> (ret.self = MaternKernel(nu_arg).value)]
    /\ UNCHANGED <<pc, args, fields, error>>

\* Values of nu: none, strings of up to MaxNuChars characters, and the numbers
\* num/den given as float or as Fraction.
NuArgs ==
    {NoValue}
    \cup {Given([type |-> "str", chars |-> c]) :
            c \in UNION {[1..n -> {"0", "1", "2", "3", "5", "/", "."}] :
                            n \in 0..MaxNuChars}}
    \cup {Given([type |-> t, num |-> n, den |-> d]) :
            t \in {"float", "Fraction"}, n \in (-1)..MaxNuNumerator, d \in {1, 2, 4}}

NextKernel ==
    \/ \E nu_arg \in NuArgs : new_MaternKernel(nu_arg)
    \/ \E nu_arg \in NuArgs : eq_MaternKernel(nu_arg)

SpecKernel == Init /\ [][NextKernel]_vars

(***************************************************************************)
(* Properties of the product construction (checked under SpecProduct).     *)
(***************************************************************************)
Reorderings(s) == {t \in InjectiveSeqs(Range(s), Len(s)) : Len(t) = Len(s)}

PairwiseDifferentTypes(cs) == NoDuplicates([i \in 1..Len(cs) |-> cs[i].type])

\* C1: parameter_cartesian_prod_to_df returns one column per discrete parameter,
\* in parameter order, and one row per element of the cartesian product of
\* their value sets: n1*...*nk rows, each a combination, no combination twice.
\* Continuous parameters contribute nothing, and without a discrete parameter
\* the result has zero rows and zero columns.
C1_CartesianProduct ==
    (pc = "returned" /\ ret.op = "parameter_cartesian_prod_to_df") =>
        LET ps == args.parameters
            d == SelectPos(ps, {i \in 1..Len(ps) :
                                   ps[i].kind # "NumericalContinuousParameter"}, 1)
            df == ret.value
        IN /\ df.columns = [j \in 1..Len(d) |-> d[j].name]
           /\ Len(df.rows) = Len(df.index)
           /\ Len(df.rows) = IF Len(d) = 0 THEN 0
                             ELSE SeqProd([j \in 1..Len(d) |-> Len(d[j].values)])
           /\ \A i \in 1..Len(df.rows) :
                 /\ Len(df.rows[i]) = Len(d)
                 /\ \A j \in 1..Len(d) : df.rows[i][j] \in Range(d[j].values)
           /\ NoDuplicates(df.rows)
           /\ NoDuplicates(df.index)

C1_Witness ==
    /\ pc = "returned"
    /\ ret.op = "parameter_cartesian_prod_to_df"
    /\ Len(args.parameters) = 2
    /\ \A i \in 1..2 : is_discrete(args.parameters[i])
    /\ Len(args.parameters[1].values) # Len(args.parameters[2].values)
    /\ NRows(ret.value) = 6

\* C3: from_product does not depend on the order in which constraints of
\* pairwise different types are given: every reordering of the constraints
\* yields the exp_rep of the constructed space.
C3_ConstraintOrderIndependent ==
    (pc = "built" /\ args.op = "from_product"
        /\ PairwiseDifferentTypes(args.constraints)) =>
        \A cs \in Reorderings(args.constraints) :
            /\ from_product_error(args.parameters, cs) = ""
            /\ from_product_exp_rep(args.parameters, cs) = exp_rep

C3_Witness ==
    /\ pc = "built"
    /\ args.op = "from_product"
    /\ Len(args.constraints) = 2
    /\ args.constraints[1].type = NODUP
    /\ args.constraints[2].type = PERM
    /\ \A i \in 1..2 : args.constraints[i].eval_during_creation
    /\ NRows(exp_rep) > 0
    /\ NRows(exp_rep) < NRows(parameter_cartesian_prod_to_df(args.parameters))

\* C11: the constraints evaluated during creation run one after the other in
\* canonical filtering order, and each one's get_invalid is called on the raw
\* product without the rows its predecessors rejected; the space holds what
\* the last pass leaves, re-indexed.
C11_SequentialFiltering ==
    (pc = "built" /\ args.op = "from_product") =>
        LET raw == parameter_cartesian_prod_to_df(args.parameters)
            eager == SelectPos(constraints,
                               {i \in 1..Len(constraints) :
                                   constraints[i].eval_during_creation}, 1)
            steps == ret.steps
            rejected(k) == UNION {steps[j].inds : j \in 1..k}
        IN /\ Len(steps) = Len(eager)
           /\ \A k \in 1..Len(steps) :
                 /\ steps[k].constraint = eager[k]
                 /\ steps[k].seen = DropLabels(raw, rejected(k - 1))
                 /\ k > 1 => FilterKey(eager[k - 1]) <= FilterKey(eager[k])
           /\ exp_rep = ResetIndex(DropLabels(raw, rejected(Len(steps))))

\* A permutation-invariance pass that sees a table a sum constraint has already
\* pruned, and rejects fewer rows than it would on the raw product.
C11_Witness ==
    /\ pc = "built"
    /\ args.op = "from_product"
    /\ Len(ret.steps) = 2
    /\ ret.steps[1].constraint.type = SUM
    /\ ret.steps[2].constraint.type = PERM
    /\ args.constraints[1].type = PERM
    /\ ret.steps[1].inds # {}
    /\ NRows(ret.steps[2].seen) > 0
    /\ ret.steps[2].inds
          # get_invalid(ret.steps[2].constraint,
                        parameter_cartesian_prod_to_df(args.parameters))
                \cap Range(ret.steps[2].seen.index)

\* The position of constraint c in the list cs.
PositionIn(cs, c) == CHOOSE i \in 1..Len(cs) : cs[i] = c

\* C12: the constraints stored on a space built by from_product or by the
\* constructor are the given constraints in canonical filtering order: sorted
\* by the position of their type, same-type constraints in their input order.
C12_ConstraintsStoredCanonical ==
    (pc = "built" /\ args.op \in {"from_product", "init_with_constraints"}) =>
        /\ Len(constraints) = Len(args.constraints)
        /\ Range(constraints) = Range(args.constraints)
        /\ \A i, j \in 1..Len(constraints) :
              i < j =>
                 /\ FilterKey(constraints[i]) <= FilterKey(constraints[j])
                 /\ FilterKey(constraints[i]) = FilterKey(constraints[j])
                       => PositionIn(args.constraints, constraints[i])
                             < PositionIn(args.constraints, constraints[j])

\* The constraints of cs, in their order, that are not evaluated during creation.
Deferred(cs) == SelectPos(cs, {i \in 1..Len(cs) : ~cs[i].eval_during_creation}, 1)

\* The constraints of cs, in their order, without the deferred ones.
WithoutDeferred(cs) == SelectPos(cs, {i \in 1..Len(cs) : cs[i].eval_during_creation}, 1)

\* C13: a constraint with eval_during_creation = false removes no row in
\* from_product (exp_rep is the one built from the list without it) and is
\* stored on the constructed space.
C13_DeferredConstraintsKept ==
    (pc = "built" /\ args.op = "from_product") =>
        /\ from_product_error(args.parameters, WithoutDeferred(args.constraints)) = ""
        /\ exp_rep = from_product_exp_rep(args.parameters,
                                          WithoutDeferred(args.constraints))
        /\ Range(Deferred(args.constraints)) \subseteq Range(constraints)

\* A deferred no-duplicate-labels constraint over columns the space has, next to
\* an applied constraint, with a row left that the deferred one would reject.
C13_Witness ==
    /\ pc = "built"
    /\ args.op = "from_product"
    /\ Len(args.constraints) = 2
    /\ \E i, j \in 1..2 :
          /\ ~args.constraints[i].eval_during_creation
          /\ args.constraints[i].type = NODUP
          /\ get_invalid_error(args.constraints[i], exp_rep) = ""
          /\ get_invalid(args.constraints[i], exp_rep) # {}
          /\ args.constraints[j].eval_during_creation
          /\ args.constraints[i] \in Range(constraints)
    /\ NRows(exp_rep) < NRows(parameter_cartesian_prod_to_df(args.parameters))

(***************************************************************************)
(* Properties of the simplex construction (checked under SpecSimplex).     *)
(***************************************************************************)
\* The rows of the full cartesian product whose sum is within tolerance of total.
BruteForceBoundary(ps, total, tolerance) ==
    LET full == parameter_cartesian_prod_to_df(ps)
    IN {full.rows[i] : i \in {k \in 1..NRows(full) :
            Abs(SeqSum(full.rows[k]) - total) <= tolerance}}

\* C2: with boundary_only, from_simplex yields exactly the rows that brute force
\* keeps (the full cartesian product filtered by |sum - total| <= tolerance),
\* each once, in the table from_product builds for the sum constraint
\* "sum = total" of that tolerance.
C2_SimplexEqualsBruteForce ==
    (pc = "built" /\ args.op = "from_simplex" /\ args.boundary_only) =>
        /\ Range(exp_rep.rows)
              = BruteForceBoundary(args.parameters, args.total, args.tolerance)
        /\ NoDuplicates(exp_rep.rows)
        /\ exp_rep.columns = Names(args.parameters)
        /\ exp_rep = from_product_exp_rep(
                        args.parameters,
                        <<DiscreteConstraint(SUM, Names(args.parameters), TRUE,
                                             args.total, args.tolerance)>>)

C2_Witness ==
    /\ pc = "built"
    /\ args.op = "from_simplex"
    /\ args.boundary_only
    /\ Len(args.parameters) = 2
    /\ min_upcoming(args.parameters, 1) > 0
    /\ args.tolerance = 1
    /\ NRows(exp_rep) >= 3
    /\ NRows(exp_rep) < NRows(parameter_cartesian_prod_to_df(args.parameters))
    /\ \E i, j \in 1..NRows(exp_rep) : RowSum(exp_rep, i) # RowSum(exp_rep, j)

\* C15 as claimed: without boundary_only, from_simplex keeps exactly the rows
\* of the product whose sum is within tolerance of total.
C15_KeptWithinTolerance ==
    (pc = "built" /\ args.op = "from_simplex" /\ ~args.boundary_only) =>
        Range(exp_rep.rows)
            = BruteForceBoundary(args.parameters, args.total, args.tolerance)

\* C15 amended: without boundary_only, from_simplex keeps exactly the rows of
\* the product whose sum is at most total + tolerance, in product order; rows
\* whose sum falls short of total stay.
C15_KeptUpToTotal ==
    (pc = "built" /\ args.op = "from_simplex" /\ ~args.boundary_only) =>
        LET full == parameter_cartesian_prod_to_df(args.parameters)
            fits == {k \in 1..NRows(full) :
                        SeqSum(full.rows[k]) <= args.total + args.tolerance}
        IN /\ exp_rep.rows = SelectPos(full.rows, fits, 1)
           /\ exp_rep.columns = Names(args.parameters)

\* A simplex without boundary_only that holds a row falling short of the total
\* by more than the tolerance, and from which the upper bound removed rows.
C15_Witness ==
    /\ pc = "built"
    /\ args.op = "from_simplex"
    /\ ~args.boundary_only
    /\ Len(args.parameters) = 2
    /\ args.tolerance >= 0
    /\ \E i \in 1..NRows(exp_rep) :
          RowSum(exp_rep, i) < args.total - args.tolerance
    /\ \E i \in 1..NRows(exp_rep) : RowSum(exp_rep, i) = args.total
    /\ NRows(exp_rep) < NRows(parameter_cartesian_prod_to_df(args.parameters))

\* C24: without boundary_only, the rows of from_simplex are the rows of the
\* full product whose sum is at most total + tolerance, each once: a row whose
\* sum is exactly total + tolerance is kept, a row of any larger sum is not.
C24_InteriorInclusive ==
    (pc = "built" /\ args.op = "from_simplex" /\ ~args.boundary_only) =>
        LET full == Range(parameter_cartesian_prod_to_df(args.parameters).rows)
        IN /\ Range(exp_rep.rows) \subseteq full
           /\ NoDuplicates(exp_rep.rows)
           /\ \A r \in full :
                 /\ (SeqSum(r) = args.total + args.tolerance) =>
                       r \in Range(exp_rep.rows)
                 /\ (SeqSum(r) < args.total + args.tolerance) =>
                       r \in Range(exp_rep.rows)
                 /\ (SeqSum(r) > args.total + args.tolerance) =>
                       r \notin Range(exp_rep.rows)

\* A simplex with a positive tolerance that keeps a row of sum total + tolerance
\* and lacks a row of the product whose sum is larger by one.
C24_Witness ==
    /\ pc = "built"
    /\ args.op = "from_simplex"
    /\ ~args.boundary_only
    /\ args.tolerance > 0
    /\ Len(args.parameters) = 2
    /\ \E i \in 1..NRows(exp_rep) :
          RowSum(exp_rep, i) = args.total + args.tolerance
    /\ \E r \in Range(parameter_cartesian_prod_to_df(args.parameters).rows) :
          SeqSum(r) = args.total + args.tolerance + 1

\* C25: the table after the k-th join of from_simplex lacks a joined partial
\* row only if its sum exceeds total + tolerance minus the smallest sum the
\* parameters behind the k-th can add; so the beginning of every row of the
\* product whose sum is at most total + tolerance is in it, for one or more
\* parameters in any order.
C25_PruningSound ==
    (pc = "built" /\ args.op = "from_simplex" /\ ret.op = "from_simplex") =>
        LET ps == args.parameters
            full == Range(parameter_cartesian_prod_to_df(ps).rows)
            to_come(k) == SeqSum([j \in 1..(Len(ps) - k) |->
                                    Min(Range(ps[k + j].values))])
            before(k) == IF k = 1 THEN {<<>>} ELSE Range(ret.steps[k - 1].rows)
            joined(k) == {Append(r, v) : r \in before(k), v \in Range(ps[k].values)}
        IN /\ Len(ret.steps) = Len(ps)
           /\ \A k \in 1..Len(ps) :
                 /\ Range(ret.steps[k].rows) \subseteq joined(k)
                 /\ \A r \in joined(k) \ Range(ret.steps[k].rows) :
                       SeqSum(r) > args.total + args.tolerance - to_come(k)
                 /\ \A r \in full :
                       (SeqSum(r) <= args.total + args.tolerance) =>
                           SubSeq(r, 1, k) \in Range(ret.steps[k].rows)

\* A simplex of two parameters whose first join dropped a value of the first
\* parameter and whose second join dropped further rows, with rows left.
C25_Witness ==
    /\ pc = "built"
    /\ args.op = "from_simplex"
    /\ ret.op = "from_simplex"
    /\ Len(args.parameters) = 2
    /\ 0 < NRows(ret.steps[1])
    /\ NRows(ret.steps[1]) < Len(args.parameters[1].values)
    /\ 0 < NRows(ret.steps[2])
    /\ NRows(ret.steps[2]) < NRows(ret.steps[1]) * Len(args.parameters[2].values)

\* C16: from_simplex with a parameter that is not numerical-discrete, or with
\* a parameter holding a negative value, raises ValueError and constructs
\* nothing.
C16_SimplexPreconditions ==
    (/\ args.op = "from_simplex"
     /\ \E i \in 1..Len(args.parameters) :
           \/ args.parameters[i].kind # "NumericalDiscreteParameter"
           \/ \E k \in 1..Len(args.parameters[i].values) :
                 args.parameters[i].values[k] < 0) =>
        /\ pc = "error"
        /\ error = "ValueError"
        /\ parameters = <<>>
        /\ exp_rep = NoFrame
        /\ metadata = NoFrame
        /\ comp_rep = NoFrame

\* A call whose first parameter is fine and whose second one holds a negative
\* value, with a total the non-negative rows could meet.
C16_Witness ==
    /\ args.op = "from_simplex"
    /\ pc = "error"
    /\ Len(args.parameters) = 2
    /\ \A i \in 1..2 : args.parameters[i].kind = "NumericalDiscreteParameter"
    /\ \A k \in 1..Len(args.parameters[1].values) : args.parameters[1].values[k] >= 0
    /\ \E k \in 1..Len(args.parameters[2].values) : args.parameters[2].values[k] < 0
    /\ args.total >= 1

(***************************************************************************)
(* Properties of a constructed space (checked under Spec).                 *)
(***************************************************************************)
\* The positions of the rows of exp whose task-parameter value is not active.
InactiveRows(ps, exp) ==
    {i \in 1..NRows(exp) :
        \E j \in 1..Len(ps) :
            /\ ps[j].kind = "TaskParameter"
            /\ ps[j].name \in Range(exp.columns)
            /\ Column(exp, ps[j].name)[i] \notin ps[j].active_values}

Flag(md, i, flag) == md.rows[i][flag]

\* C4: in every state of a constructed space, each row holding an inactive value
\* of a task parameter has dont_recommend set, and get_candidates returns no
\* such row whatever its two flags are.
C4_InactiveTaskNeverRecommended ==
    (pc = "built") =>
        \A i \in InactiveRows(parameters, exp_rep) :
            /\ Flag(metadata, i, DONT_RECOMMEND)
            /\ \A ar, am \in BOOLEAN :
                  LET c == candidates(exp_rep, comp_rep, metadata, ar, am)
                  IN /\ exp_rep.index[i] \notin Range(c.exp_rep.index)
                     /\ exp_rep.index[i] \notin Range(c.comp_rep.index)
            /\ (ret.op = "get_candidates") =>
                  /\ exp_rep.index[i] \notin Range(ret.value.exp_rep.index)
                  /\ exp_rep.index[i] \notin Range(ret.value.comp_rep.index)

\* C5: a constructor call with supplied metadata that leaves dont_recommend
\* unset on a row holding an inactive value of a task parameter raises
\* ValueError and constructs nothing.
C5_InconsistentMetadataRejected ==
    (/\ args.op = "init_with_metadata"
     /\ \E i \in InactiveRows(args.parameters, args.exp_rep) :
           ~Flag(args.metadata, i, DONT_RECOMMEND)) =>
        /\ pc = "error"
        /\ error = "ValueError"
        /\ metadata = NoFrame
        /\ exp_rep = NoFrame

\* C6: get_candidates returns exactly the rows that are not flagged
\* dont_recommend, not flagged was_recommended unless repetitions are allowed,
\* and not flagged was_measured unless measured rows are allowed; both returned
\* tables hold these rows, under the same labels.
C6_CandidatesExact ==
    (pc = "built" /\ ret.op = "get_candidates") =>
        LET keep == {i \in 1..NRows(exp_rep) :
                        /\ ~Flag(metadata, i, DONT_RECOMMEND)
                        /\ (ret.allow_repeated
                               \/ ~Flag(metadata, i, WAS_RECOMMENDED))
                        /\ (ret.allow_measured
                               \/ ~Flag(metadata, i, WAS_MEASURED))}
            e == ret.value.exp_rep
            c == ret.value.comp_rep
        IN /\ Range(e.index) = {exp_rep.index[i] : i \in keep}
           /\ Len(e.index) = Cardinality(keep)
           /\ c.index = e.index
           /\ e.columns = exp_rep.columns
           /\ c.columns = comp_rep.columns
           /\ \A k \in 1..Len(e.index) : \E i \in keep :
                 /\ e.index[k] = exp_rep.index[i]
                 /\ e.rows[k] = exp_rep.rows[i]
                 /\ c.rows[k] = comp_rep.rows[i]

C6_Witness ==
    /\ pc = "built"
    /\ ret.op = "get_candidates"
    /\ ~ret.allow_repeated
    /\ ret.allow_measured
    /\ \E i, j, k \in 1..NRows(metadata) :
          /\ Flag(metadata, i, WAS_RECOMMENDED) /\ ~Flag(metadata, i, DONT_RECOMMEND)
          /\ Flag(metadata, j, WAS_MEASURED) /\ ~Flag(metadata, j, WAS_RECOMMENDED)
          /\ ~Flag(metadata, j, DONT_RECOMMEND)
          /\ exp_rep.index[j] \in Range(ret.value.exp_rep.index)
          /\ exp_rep.index[i] \notin Range(ret.value.exp_rep.index)

\* C7: get_candidates is a pure read: a call leaves the metadata (and every
\* other attribute) as it was, and a second call with the same flags returns
\* what the first returned.
C7_GetCandidatesPure ==
    [][(pc = "built" /\ ret'.op = "get_candidates") =>
            /\ metadata' = metadata
            /\ (/\ ret.op = "get_candidates"
                /\ ret.allow_repeated
                      = ret'.allow_repeated
                /\ ret.allow_measured
                      = ret'.allow_measured)
               => ret'.value = ret.value]_vars

C7_Witness ==
    /\ pc = "built"
    /\ ret.op = "get_candidates"
    /\ ~ret.allow_measured
    /\ \E i \in 1..NRows(metadata) :
          /\ Flag(metadata, i, WAS_MEASURED)
          /\ ~Flag(metadata, i, DONT_RECOMMEND)
    /\ NRows(ret.value.exp_rep) > 0

\* C8: mark_as_measured sets was_measured on exactly the rows whose labels the
\* matching returned and changes no other cell of the metadata.
C8_MarkAsMeasuredFrame ==
    [][(pc = "built" /\ ret'.op = "mark_as_measured") =>
            /\ metadata'.index = metadata.index
            /\ metadata'.columns = metadata.columns
            /\ \A i \in 1..NRows(metadata) :
                  /\ Flag(metadata', i, WAS_MEASURED)
                        = (Flag(metadata, i, WAS_MEASURED)
                              \/ metadata.index[i] \in ret'.inds_matched)
                  /\ Flag(metadata', i, WAS_RECOMMENDED)
                        = Flag(metadata, i, WAS_RECOMMENDED)
                  /\ Flag(metadata', i, DONT_RECOMMEND)
                        = Flag(metadata, i, DONT_RECOMMEND)]_vars

C8_Witness ==
    /\ pc = "built"
    /\ ret.op = "mark_as_measured"
    /\ Cardinality(ret.inds_matched) >= 2
    /\ \A i \in 1..NRows(metadata) :
          Flag(metadata, i, WAS_MEASURED) <=> metadata.index[i] \in ret.inds_matched
    /\ \E i \in 1..NRows(metadata) : ~Flag(metadata, i, WAS_MEASURED)

\* C9: once a space is constructed, no operation changes its parameters, exp_rep
\* or comp_rep (nor its constraints or empty_encoding): only metadata changes.
C9_RepresentationsImmutable ==
    [][(pc = "built") =>
            /\ parameters' = parameters
            /\ exp_rep' = exp_rep
            /\ comp_rep' = comp_rep
            /\ constraints' = constraints
            /\ empty_encoding' = empty_encoding]_vars

C9_Witness ==
    /\ pc = "built"
    /\ ret.op = "transform"
    /\ ret.error = ""
    /\ NRows(ret.value) > 0
    /\ \E i \in 1..NRows(metadata) : Flag(metadata, i, WAS_MEASURED)

\* C14: the row index of exp_rep has no duplicates in any constructed space;
\* from_product and from_simplex give the dense index 0..n-1 over the n rows
\* that survive; construction from a table with a repeated label raises
\* ValueError.
C14_IndexDuplicateFree ==
    /\ (pc = "built") => NoDuplicates(exp_rep.index)
    /\ (pc = "built" /\ args.op \in {"from_product", "from_simplex"}) =>
          exp_rep.index = [i \in 1..Len(exp_rep.rows) |-> i - 1]
    /\ (args.op = "from_dataframe"
          /\ \E i, j \in 1..Len(args.df.index) :
                i # j /\ args.df.index[i] = args.df.index[j]) =>
          (pc = "error" /\ error = "ValueError")

\* A product from which a constraint pruned rows in the middle of the table.
C14_Witness ==
    /\ pc = "built"
    /\ args.op = "from_product"
    /\ ret.op = "from_product"
    /\ Len(ret.steps) = 1
    /\ \E l \in ret.steps[1].inds :
          \E k \in Range(ret.steps[1].seen.index) \ ret.steps[1].inds : l < k
    /\ NRows(exp_rep) >= 2
    /\ exp_rep.index = RangeIndex(NRows(exp_rep))

\* The columns of the encodings of all parameters, in parameter order.
RECURSIVE AllCompCols(_)
AllCompCols(ps) == IF ps = <<>> THEN <<>> ELSE Head(ps).comp_cols \o AllCompCols(Tail(ps))

\* C17 as claimed: every transform of a table holding the parameter columns,
\* whatever its number of rows, returns the columns of comp_rep in their order.
C17_ColumnsOfCompRep ==
    (/\ pc = "built"
     /\ ret.op = "transform"
     /\ Range(Names(parameters)) \subseteq Range(ret.data.columns)) =>
        /\ ret.error = ""
        /\ ret.value.columns = comp_rep.columns

\* C17 amended: every transform of a table with at least one row holding the
\* parameter columns returns the columns of comp_rep in their order; for a
\* table without rows it returns no columns.
C17_ColumnsOfCompRepForRows ==
    (/\ pc = "built"
     /\ ret.op = "transform"
     /\ Range(Names(parameters)) \subseteq Range(ret.data.columns)) =>
        /\ ret.error = ""
        /\ Len(ret.data.index) >= 1 => ret.value.columns = comp_rep.columns
        /\ Len(ret.data.index) = 0 => ret.value.columns = <<>>

\* A transform of a table with an additional column, on a space whose comp_rep
\* lost the constant columns of a categorical parameter and kept another one.
C17_Witness ==
    /\ pc = "built"
    /\ ret.op = "transform"
    /\ ret.error = ""
    /\ "Target" \in Range(ret.data.columns)
    /\ NRows(ret.data) >= 2
    /\ comp_rep.columns # <<>>
    /\ comp_rep.columns # AllCompCols(parameters)
    /\ ret.value.columns = comp_rep.columns

\* C18: transform returns a table with the row index of its input; with
\* empty_encoding or an input without rows the table has no columns.
C18_TransformKeepsIndex ==
    (pc = "built" /\ ret.op = "transform" /\ ret.error = "") =>
        /\ ret.value.index = ret.data.index
        /\ (empty_encoding \/ Len(ret.data.index) = 0) => ret.value.columns = <<>>

\* The construction named by args is a from_product or from_simplex call whose
\* filtering leaves no row of a product that had rows.
AllRowsPruned ==
    \/ /\ args.op = "from_product"
       /\ NRows(parameter_cartesian_prod_to_df(args.parameters)) > 0
       /\ \A i \in 1..Len(args.constraints) :
             Range(args.constraints[i].parameters) \subseteq Range(Names(args.parameters))
       /\ NRows(from_product_exp_rep(args.parameters, args.constraints)) = 0
    \/ /\ args.op = "from_simplex"
       /\ Len(args.parameters) > 0
       /\ \A i \in 1..Len(args.parameters) :
             /\ args.parameters[i].kind = "NumericalDiscreteParameter"
             /\ \A k \in 1..Len(args.parameters[i].values) :
                   args.parameters[i].values[k] >= 0
       /\ NRows(from_simplex_exp_rep(args.parameters, args.total,
                                     args.boundary_only, args.tolerance)) = 0

\* C19: a from_product or from_simplex call whose filtering removes every row
\* returns a space: the parameters as given, exp_rep with the parameter columns
\* and no rows, metadata and comp_rep without rows, and no candidates.
C19_AllPrunedIsValid ==
    AllRowsPruned =>
        /\ pc = "built"
        /\ error = ""
        /\ parameters = args.parameters
        /\ exp_rep = DataFrame(<<>>, Names(args.parameters), <<>>)
        /\ metadata = DataFrame(<<>>, _METADATA_COLUMNS, <<>>)
        /\ comp_rep.index = <<>> /\ comp_rep.rows = <<>>
        /\ \A ar, am \in BOOLEAN :
              LET c == candidates(exp_rep, comp_rep, metadata, ar, am)
              IN NRows(c.exp_rep) = 0 /\ NRows(c.comp_rep) = 0
        /\ (ret.op = "get_candidates") =>
              /\ NRows(ret.value.exp_rep) = 0
              /\ NRows(ret.value.comp_rep) = 0

\* get_candidates called on a simplex space whose boundary filter left no row.
C19_Witness ==
    /\ AllRowsPruned
    /\ args.op = "from_simplex"
    /\ args.boundary_only
    /\ pc = "built"
    /\ ret.op = "get_candidates"
    /\ ret.allow_repeated /\ ret.allow_measured
    /\ exp_rep.columns # <<>>

\* C20: from_product with a constraint over a parameter name that the
\* parameter list does not have fails, whatever the constraint's
\* eval_during_creation flag; no space is returned.
C20_AbsentNameFails ==
    (/\ args.op = "from_product"
     /\ \E i \in 1..Len(args.constraints) :
           ~(Range(args.constraints[i].parameters)
                \subseteq Range(Names(args.parameters)))) =>
        pc = "error"

\* C10: in a constructed space comp_rep and metadata carry exactly the row index
\* of exp_rep, one row per configuration, whichever path constructed it.
C10_IndexAlignment ==
    (pc = "built") =>
        /\ comp_rep.index = exp_rep.index
        /\ metadata.index = exp_rep.index
        /\ metadata.columns = _METADATA_COLUMNS
        /\ Len(exp_rep.rows) = Len(exp_rep.index)
        /\ Len(comp_rep.rows) = Len(exp_rep.index)
        /\ Len(metadata.rows) = Len(exp_rep.index)
        /\ NoDuplicates(exp_rep.index)

C10_Witness ==
    /\ pc = "built"
    /\ args.op = "from_dataframe"
    /\ empty_encoding
    /\ exp_rep.index = <<5, 7, 9>>
    /\ comp_rep.columns = <<>>

(***************************************************************************)
(* Properties of NumericalDiscreteParameter (checked under SpecParameter). *)
(***************************************************************************)
\* C21: a constructed NumericalDiscreteParameter has a tolerance that is not
\* negative and strictly below half the smallest gap of its grid, and
\* is_in_range never finds an item within tolerance of two grid values.
C21_ToleranceBelowHalfGap ==
    (pc = "parameter") =>
        /\ ret.self.tolerance >= 0
        /\ \A i \in 1..(Len(ret.self.values) - 1) :
              2 * ret.self.tolerance
                  < ToleranceDenominator * (ret.self.values[i + 1] - ret.self.values[i])
        /\ (ret.op = "is_in_range") => Cardinality(ret.acceptable) <= 1

(***************************************************************************)
(* Monotonicity of was_measured (checked under Spec).                      *)
(***************************************************************************)
\* C27: no operation on a constructed space turns a was_measured entry from
\* true to false, so the candidates of get_candidates with
\* allow_recommending_already_measured = False never gain a row; once every
\* row is measured they are the table without rows, returned without error.
C27_MeasuredMonotone ==
    /\ [][(pc = "built") =>
            /\ metadata'.index = metadata.index
            /\ \A i \in 1..NRows(metadata) :
                  metadata.rows[i][WAS_MEASURED] => metadata'.rows[i][WAS_MEASURED]
            /\ \/ <<exp_rep', comp_rep', metadata'>> = <<exp_rep, comp_rep, metadata>>
               \/ \A ar \in BOOLEAN :
                     Range(LocNot(exp_rep', metadata',
                                  mask_todrop(metadata', ar, FALSE)).index)
                         \subseteq
                     Range(LocNot(exp_rep, metadata,
                                  mask_todrop(metadata, ar, FALSE)).index)
         ]_vars
    /\ []((pc = "built"
            /\ \A i \in 1..NRows(metadata) : metadata.rows[i][WAS_MEASURED]) =>
              /\ \A ar \in BOOLEAN :
                    LET c == candidates(exp_rep, comp_rep, metadata, ar, FALSE)
                    IN NRows(c.exp_rep) = 0 /\ NRows(c.comp_rep) = 0
              /\ (ret.op = "get_candidates" /\ ~ret.allow_measured) =>
                    NRows(ret.value.exp_rep) = 0 /\ NRows(ret.value.comp_rep) = 0)

\* A space built without measured rows, all of whose rows (more than one) have
\* since been marked as measured, asked for its unmeasured candidates.
C27_Witness ==
    /\ pc = "built"
    /\ args.op \in {"from_product", "from_dataframe"}
    /\ NRows(exp_rep) >= 2
    /\ \A i \in 1..NRows(metadata) : metadata.rows[i][WAS_MEASURED]
    /\ ret.op = "get_candidates"
    /\ ~ret.allow_measured
    /\ NRows(ret.value.exp_rep) = 0

(***************************************************************************)
(* Properties of param_bounds_comp (checked under Spec).                   *)
(***************************************************************************)
\* C26: param_bounds_comp of a constructed space returns a 2 x k table, k the
\* number of columns of comp_rep, whose j-th column holds the smallest and the
\* largest value of the j-th column of comp_rep in the comp_df of the parameter
\* owning it; with no column in comp_rep it is the 2 x 0 table, not an error.
C26_BoundsOfRetainedColumns ==
    (pc = "built" /\ ret.op = "param_bounds_comp") =>
        /\ ret.error = ""
        /\ Len(ret.value[1]) = Len(comp_rep.columns)
        /\ Len(ret.value[2]) = Len(comp_rep.columns)
        /\ \A j \in 1..Len(comp_rep.columns) :
              \E i \in 1..Len(parameters) :
                  /\ HasColumn(comp_df(parameters[i]), comp_rep.columns[j])
                  /\ LET c == Range(Column(comp_df(parameters[i]), comp_rep.columns[j]))
                     IN /\ ret.value[1][j] \in c /\ ret.value[2][j] \in c
                        /\ \A x \in c : ret.value[1][j] <= x /\ x <= ret.value[2][j]

(***************************************************************************)
(* Properties of MaternKernel (checked under SpecKernel).                  *)
(***************************************************************************)
\* C23: MaternKernel stores 0.5, 1.5 or 2.5 (2.5 when nu is not given); the
\* strings 1/2, 3/2, 5/2, 0.5, 1.5, 2.5 and the numbers and Fractions of these
\* values are accepted and stored as the same number, so that kernels of the
\* same number compare equal; every other nu is rejected, and every rejection
\* is a ValueError.
C23_NuConversion ==
    LET Allowed == {Rational(1, 2), Rational(3, 2), Rational(5, 2)}
        Written == {<<<<"1", "/", "2">>, Rational(1, 2)>>,
                    <<<<"3", "/", "2">>, Rational(3, 2)>>,
                    <<<<"5", "/", "2">>, Rational(5, 2)>>,
                    <<<<"0", ".", "5">>, Rational(1, 2)>>,
                    <<<<"1", ".", "5">>, Rational(3, 2)>>,
                    <<<<"2", ".", "5">>, Rational(5, 2)>>}
    IN (args.op = "MaternKernel") =>
        /\ pc \in {"kernel", "error"}
        /\ (pc = "error") => error = "ValueError"
        /\ (pc = "kernel") => ret.self.nu \in Allowed
        /\ (~args.nu.given) => (pc = "kernel" /\ ret.self.nu = Rational(5, 2))
        /\ (args.nu.given /\ args.nu.value.type # "str") =>
              /\ (pc = "kernel") <=>
                    Rational(args.nu.value.num, args.nu.value.den) \in Allowed
              /\ (pc = "kernel") =>
                    ret.self.nu = Rational(args.nu.value.num, args.nu.value.den)
        /\ \A w \in Written :
              (args.nu.given /\ args.nu.value.type = "str"
                    /\ args.nu.value.chars = w[1]) =>
                  (pc = "kernel" /\ ret.self.nu = w[2])
        /\ (pc = "kernel" /\ ret.op = "__eq__") =>
              (ret.value <=> ret.self.nu = ret.other.nu)
====
